---- MODULE Spec2Model ----
(***************************************************************************)
(* A model of the task-list API: the tasks table (utils), and the HTTP     *)
(* handlers of main.go that read and write it.                             *)
(*                                                                         *)
(* Spec      every handler runs from its first line to its response as one *)
(*           step (requests one after another); any one database call of   *)
(*           the request may fail. The request, its response and the table *)
(*           as the request found it stay readable until the server takes  *)
(*           the next request.                                             *)
(* SpecConc  two requests in flight (POST /tasks with an object, DELETE     *)
(*           /tasks/:id, PATCH /tasks/reorder), each handler one step per  *)
(*           database call, the calls of the two interleaved in any order. *)
(*           A write made while another connection's transaction holds     *)
(*           SQLite's write lock fails (SQLITE_BUSY).                      *)
(*                                                                         *)
(* Strings the code formats are kept as the format and its argument.       *)
(* time.Now() is read once per request that writes a timestamp: `now`      *)
(* counts the readings.                                                    *)
(***************************************************************************)
EXTENDS Integers, Sequences, FiniteSets, TLC

\* ------------------------------------------------------------------ bounds
MaxPos == 2      \* positions a request may carry: 0..MaxPos
MaxBatch == 2    \* items of a POST array, pairs of a reorder
MaxCount == 2    \* the count of POST /tasks/generate
MaxPage == 2     \* page and limit of GET /tasks
MaxClock == 2    \* readings of the clock in one behaviour

\* `batchSize := 1000` of GenerateDummyTasks
BatchSize == 1000

VARIABLES
    tasks,   \* the rows of table tasks (committed)
    seq,     \* sqlite_sequence of tasks: the largest id AUTOINCREMENT has given
    now,     \* the clock: the last value time.Now() returned
    req,     \* Spec: the request just handled
    resp,    \* Spec: its response
    before,  \* Spec: the rows of tasks when the request arrived
    pc,      \* SpecConc: where each in-flight handler stands
    creq,    \* SpecConc: each handler's request
    cresp,   \* SpecConc: each handler's response
    txn      \* SpecConc: each handler's open transaction

vars == <<tasks, seq, now, req, resp, before, pc, creq, cresp, txn>>

\* ------------------------------------------------------------------ strings
Str(s) == [fmt |-> s, arg |-> 0]
Sprintf(fmt, d) == [fmt |-> fmt, arg |-> d]
EmptyStr == Str("")

\* ------------------------------------------------------------------ models.Task
Task(id, title, description, position, createdAt, updatedAt) ==
    [id |-> id, title |-> title, description |-> description,
     position |-> position, created_at |-> createdAt, updated_at |-> updatedAt]

\* A JSON object as the handlers decode it: a missing field is the zero value.
Item(id, title, description, position) ==
    [id |-> id, title |-> title, description |-> description, position |-> position]

Min(a, b) == IF a < b THEN a ELSE b

\* ------------------------------------------------------------------ utils: the table
\* INSERT INTO tasks ...: AUTOINCREMENT gives the id after the largest ever given.
AddTask(T, s, title, description, position, t) ==
    LET row == Task(s + 1, title, description, position, t, t)
    IN  [tasks |-> T \cup {row}, seq |-> s + 1, task |-> row]

\* A CheckPositionExists that asks for more than one row (count > 1)
CheckPositionExistsOffByOne(T, position) ==
    Cardinality({r \in T : r.position = position}) > 1

\* SELECT COUNT(*) FROM tasks WHERE position = ?  ... count > 0
CheckPositionExists(T, position) ==
    Cardinality({r \in T : r.position = position}) > 0

\* SELECT COUNT(*) FROM tasks WHERE id = ?  ... count > 0
CheckTaskExists(T, id) ==
    Cardinality({r \in T : r.id = id}) > 0

\* UPDATE tasks SET title, description, position, updated_at WHERE id = ?
UpdateTask(T, id, title, description, position, t) ==
    {IF r.id = id
       THEN [r EXCEPT !.title = title, !.description = description,
                      !.position = position, !.updated_at = t]
       ELSE r : r \in T}

\* A DeleteTask whose WHERE names the wrong column (position = ?)
DeleteTaskByPosition(T, id) == {r \in T : r.position # id}

\* DELETE FROM tasks WHERE id = ?
DeleteTask(T, id) == {r \in T : r.id # id}

\* DELETE FROM tasks
DeleteAllTasks(T) == {}

\* UPDATE tasks SET position = ?, updated_at = ? WHERE id = ?
ExecReorderUpdate(T, id, position, t) ==
    {IF r.id = id THEN [r EXCEPT !.position = position, !.updated_at = t] ELSE r
       : r \in T}

\* SELECT ... ORDER BY id DESC LIMIT 1 (asked only of a table with rows)
GetLastTask(T) == CHOOSE r \in T : \A q \in T : q.id <= r.id

\* ORDER BY position ASC: every order of the rows with positions not descending
\* (rows of equal position come in an order SQL does not fix).
OrderByPosition(T) ==
    LET n == Cardinality(T)
    IN  {s \in [1..n -> T] :
            /\ \A i, j \in 1..n : i # j => s[i] # s[j]
            /\ \A i \in 1..n : i < n => s[i].position <= s[i + 1].position}

\* LIMIT ? OFFSET ? of an ordered result
LimitOffset(s, limit, offset) ==
    IF offset >= Len(s) THEN <<>> ELSE SubSeq(s, offset + 1, Min(offset + limit, Len(s)))

\* GetPaginatedTasks: the results it may return
GetPaginatedTasks(T, offset, limit) ==
    {[tasks |-> LimitOffset(s, limit, offset), totalCount |-> Cardinality(T)]
       : s \in OrderByPosition(T)}

\* A handler without `defer tx.Rollback()`, its writes made on the table itself
RollbackKeepsWrites(committed, working) == working

\* tx.Rollback(): the table is as committed before the transaction
Rollback(committed, working) == committed

PositionsOf(T) == {r.position : r \in T}
IdsOf(T) == {r.id : r \in T}

\* tx.Commit(): the transaction's writes become the table
Commit(committed, working) == working

\* ------------------------------------------------------------------ requests, responses
Request(op, id, body, page, limit, count) ==
    [op |-> op, id |-> id, body |-> body, page |-> page, limit |-> limit, count |-> count]

Body(kind, items) == [kind |-> kind, items |-> items]
NoBody == Body("none", <<>>)

\* c.JSON(status, ...)
Response(status, msg, ts, total, page, limit) ==
    [status |-> status, msg |-> msg, tasks |-> ts, total |-> total,
     page |-> page, limit |-> limit]

\* c.JSON(status, gin.H{"error": msg}) and c.JSON(200, gin.H{"message": msg})
Error(status, msg) == Response(status, msg, <<>>, 0, 0, 0)
Message(msg) == Response(200, msg, <<>>, 0, 0, 0)
\* No response yet: the handler goes on.
Continue == Response(0, EmptyStr, <<>>, 0, 0, 0)

\* What a handler run leaves: the table, the sequence, the response, and whether
\* it read the clock.
Outcome(T, s, r, tick) == [tasks |-> T, seq |-> s, resp |-> r, tick |-> tick]

\* ------------------------------------------------------------------ inputs
Titles == {EmptyStr, Str("A")}
Descriptions == {EmptyStr, Str("d")}
Positions == 0..MaxPos
Items == {Item(0, ti, d, p) : ti \in Titles, d \in Descriptions, p \in Positions}

SeqsUpTo(S, n) == UNION {[1..k -> S] : k \in 0..n}

\* Bodies of POST /tasks: an object, an array, or no JSON at all
PostBodies ==
    {Body("object", <<it>>) : it \in Items}
      \cup {Body("array", s) : s \in SeqsUpTo(Items, MaxBatch)}
      \cup {Body("invalid", <<>>)}

\* Bodies of PUT /tasks/:id
PutBodies == {Body("object", <<it>>) : it \in Items} \cup {Body("invalid", <<>>)}

\* Ids a request may name: none (0), every id given so far, one not given yet
Ids == {0} \cup {r.id : r \in tasks} \cup {seq + 1}

\* Bodies of PATCH /tasks/reorder
Pairs == {Item(id, EmptyStr, EmptyStr, p) : id \in Ids, p \in Positions}
ReorderBodies ==
    {Body("array", s) : s \in SeqsUpTo(Pairs, MaxBatch)} \cup {Body("invalid", <<>>)}

\* ------------------------------------------------------------------ Init
Procs == {1, 2}
\* Where a handler stands, and the index of its loop
At(label, i) == [at |-> label, i |-> i]
\* A transaction: begun or not, holding the write lock or not, and the table as
\* it sees it once it has written
Tx(open, wrote, T) == [open |-> open, wrote |-> wrote, tasks |-> T]
NoTx == Tx(FALSE, FALSE, {})
NoRequest == Request("none", 0, NoBody, 0, 0, 0)

Init ==
    /\ tasks = {}
    /\ seq = 0
    /\ now = 0
    /\ req = NoRequest
    /\ resp = Continue
    /\ before = {}
    /\ pc = [p \in Procs |-> At("idle", 0)]
    /\ creq = [p \in Procs |-> NoRequest]
    /\ cresp = [p \in Procs |-> Continue]
    /\ txn = [p \in Procs |-> NoTx]

\* A handler of Spec ends: its outcome becomes the state. In the handlers
\* below, f is the number of the request's database call that fails (0: none).
Finish(r, out) ==
    /\ out.tick => now < MaxClock
    /\ before' = tasks
    /\ tasks' = out.tasks
    /\ seq' = out.seq
    /\ now' = IF out.tick THEN now + 1 ELSE now
    /\ req' = r
    /\ resp' = out.resp
    /\ UNCHANGED <<pc, creq, cresp, txn>>

\* The handler has returned: the server takes the next request.
ServeNext ==
    /\ req # NoRequest
    /\ req' = NoRequest
    /\ resp' = Continue
    /\ before' = {}
    /\ UNCHANGED <<tasks, seq, now, pc, creq, cresp, txn>>

\* ------------------------------------------------------------------ GET /tasks
GetTasksOutcomes(page, limit, f) ==
    IF page <= 0 THEN {Outcome(tasks, seq, Error(400, Str("Invalid page value")), FALSE)}
    ELSE IF limit <= 0
      THEN {Outcome(tasks, seq, Error(400, Str("Invalid limit value")), FALSE)}
    ELSE IF f # 0
      THEN {Outcome(tasks, seq, Error(500, Str("Failed to fetch tasks")), FALSE)}
    ELSE {Outcome(tasks, seq, Response(200, EmptyStr, g.tasks, g.totalCount, page, limit),
                  FALSE)
            : g \in GetPaginatedTasks(tasks, (page - 1) * limit, limit)}

GetTasks ==
    /\ req = NoRequest
    /\ \E page \in 0..MaxPage, limit \in 0..MaxPage, f \in 0..1 :
      \E out \in GetTasksOutcomes(page, limit, f) :
        Finish(Request("GET /tasks", 0, NoBody, page, limit, 0), out)

\* ------------------------------------------------------------------ POST /tasks
\* The array branch's first loop, from item i: database call i is item i's
\* CheckPositionExists.
RECURSIVE PostValidate(_, _, _, _)
PostValidate(items, i, T, f) ==
    IF i > Len(items) THEN Continue
    ELSE IF items[i].title = EmptyStr \/ items[i].position <= 0
      THEN Error(400, Str("Title and position are required for all tasks"))
    ELSE IF f = i THEN Error(500, Str("Failed to check position existence"))
    ELSE IF CheckPositionExists(T, items[i].position)
      THEN Error(400, Sprintf("Position %d already exists", items[i].position))
    ELSE PostValidate(items, i + 1, T, f)

\* The array branch's second loop, from item i: database call Len(items) + i is
\* item i's AddTask. A failed AddTask leaves the rows added before it.
RECURSIVE PostAddAll(_, _, _, _, _, _, _)
PostAddAll(items, i, T, s, created, t, f) ==
    IF i > Len(items)
      THEN Outcome(T, s, Response(201, EmptyStr, created, 0, 0, 0), TRUE)
    ELSE IF f = Len(items) + i
      THEN Outcome(T, s, Error(500, Str("Failed to add tasks")), TRUE)
    ELSE LET a == AddTask(T, s, items[i].title, items[i].description,
                          items[i].position, t)
         IN  PostAddAll(items, i + 1, a.tasks, a.seq, Append(created, a.task), t, f)

PostArray(items, f) ==
    LET v == PostValidate(items, 1, tasks, f)
    IN  IF v.status # 0 THEN Outcome(tasks, seq, v, FALSE)
        ELSE PostAddAll(items, 1, tasks, seq, <<>>, now + 1, f)

\* The single branch: database call 1 is CheckPositionExists, call 2 AddTask.
PostSingle(task, f) ==
    IF task.title = EmptyStr \/ task.position <= 0
      THEN Outcome(tasks, seq, Error(400, Str("Title and position are required")), FALSE)
    ELSE IF f = 1
      THEN Outcome(tasks, seq, Error(500, Str("Failed to check position existence")), FALSE)
    ELSE IF CheckPositionExists(tasks, task.position)
      THEN Outcome(tasks, seq,
                   Error(400, Sprintf("Position %d already exists", task.position)), FALSE)
    ELSE IF f = 2
      THEN Outcome(tasks, seq, Error(500, Str("Failed to add task")), TRUE)
    ELSE LET a == AddTask(tasks, seq, task.title, task.description, task.position,
                          now + 1)
         IN  Outcome(a.tasks, a.seq, Response(201, EmptyStr, <<a.task>>, 0, 0, 0), TRUE)

\* An array of one item or more is the array branch; an object the single one;
\* anything else (an empty array too) decodes as neither.
PostTasksOutcome(body, f) ==
    IF body.kind = "array" /\ Len(body.items) > 0 THEN PostArray(body.items, f)
    ELSE IF body.kind = "object" THEN PostSingle(body.items[1], f)
    ELSE Outcome(tasks, seq, Error(400, Str("Invalid request body")), FALSE)

PostTasks ==
    /\ req = NoRequest
    /\ \E body \in PostBodies :
      \E f \in 0..(2 * Len(body.items)) :
        Finish(Request("POST /tasks", 0, body, 0, 0, 0), PostTasksOutcome(body, f))

\* ------------------------------------------------------------------ POST /tasks/generate
\* The insert loop of GenerateDummyTasks from i, c the number of the next database
\* call. db.Begin() opens a transaction every BatchSize rows; stmt was prepared on
\* db, not on the transaction, so stmt.Exec runs outside it and each row is
\* committed as it is inserted. The deferred functions see txErr = nil and commit
\* the (empty) transactions when the function returns.
RECURSIVE GenerateLoop(_, _, _, _, _, _, _, _, _)
GenerateLoop(count, i, T, s, startID, startPosition, t, f, c) ==
    IF i >= count THEN [tasks |-> T, seq |-> s, err |-> FALSE]
    ELSE LET begins == (i % BatchSize = 0)
             ce == IF begins THEN c + 1 ELSE c
         IN  IF begins /\ f = c THEN [tasks |-> T, seq |-> s, err |-> TRUE]
             ELSE IF f = ce THEN [tasks |-> T, seq |-> s, err |-> TRUE]
             ELSE LET a == AddTask(T, s, Sprintf("Task %d", startID + i),
                                   Sprintf("Description for task %d", startID + i),
                                   startPosition + i, t)
                  IN  GenerateLoop(count, i + 1, a.tasks, a.seq, startID,
                                   startPosition, t, f, ce + 1)

\* Database call 1 is GetLastTask, 2..4 the PRAGMAs, 5 db.Prepare, the loop's
\* calls follow.
GenerateDummyTasks(T, s, count, t, f) ==
    IF f \in 1..5 THEN [tasks |-> T, seq |-> s, err |-> TRUE]
    ELSE LET startID == IF T = {} THEN 1 ELSE GetLastTask(T).id + 1
             startPosition == IF T = {} THEN 1 ELSE GetLastTask(T).position + 1
         IN  GenerateLoop(count, 0, T, s, startID, startPosition, t, f, 6)

\* The database calls GenerateDummyTasks(count) makes when none fails
GenerateCalls(count) == 5 + count + ((count + BatchSize - 1) \div BatchSize)

GenerateOutcome(present, count, f) ==
    IF ~present
      THEN Outcome(tasks, seq, Error(400, Str("Count parameter is required")), FALSE)
    ELSE IF count <= 0
      THEN Outcome(tasks, seq, Error(400, Str("Invalid count value")), FALSE)
    ELSE LET g == GenerateDummyTasks(tasks, seq, count, now + 1, f)
         IN  IF g.err
               THEN Outcome(g.tasks, g.seq,
                            Error(500, Str("Failed to generate dummy tasks")), TRUE)
               ELSE Outcome(g.tasks, g.seq,
                            Message(Sprintf("Successfully generated %d dummy tasks", count)),
                            TRUE)

Generate ==
    /\ req = NoRequest
    /\ \E present \in BOOLEAN, count \in 0..MaxCount :
      \E f \in 0..GenerateCalls(count) :
        Finish(Request("POST /tasks/generate", 0, Body(IF present THEN "count" ELSE "none", <<>>),
                       0, 0, count),
               GenerateOutcome(present, count, f))

\* ------------------------------------------------------------------ PUT /tasks/:id
\* Database call 1 is CheckTaskExists, call 2 UpdateTask. The body's fields are
\* not validated: a missing title is "", a missing position 0.
PutTaskOutcome(id, body, f) ==
    IF id <= 0 THEN Outcome(tasks, seq, Error(400, Str("Invalid task ID")), FALSE)
    ELSE IF f = 1
      THEN Outcome(tasks, seq, Error(500, Str("Failed to check task existence")), FALSE)
    ELSE IF ~CheckTaskExists(tasks, id)
      THEN Outcome(tasks, seq, Error(404, Str("Task not found")), FALSE)
    ELSE IF body.kind # "object"
      THEN Outcome(tasks, seq, Error(400, Str("Invalid request body")), FALSE)
    ELSE IF f = 2
      THEN Outcome(tasks, seq, Error(500, Str("Failed to update task")), TRUE)
    ELSE Outcome(UpdateTask(tasks, id, body.items[1].title, body.items[1].description,
                            body.items[1].position, now + 1),
                 seq, Message(Str("Task updated successfully")), TRUE)

PutTask ==
    /\ req = NoRequest
    /\ \E id \in Ids, body \in PutBodies, f \in 0..2 :
      Finish(Request("PUT /tasks/:id", id, body, 0, 0, 0), PutTaskOutcome(id, body, f))

\* ------------------------------------------------------------------ DELETE /tasks/:id
\* Database call 1 is CheckTaskExists, call 2 DeleteTask.
DeleteTaskOutcome(id, f) ==
    IF id <= 0 THEN Outcome(tasks, seq, Error(400, Str("Invalid task ID")), FALSE)
    ELSE IF f = 1
      THEN Outcome(tasks, seq, Error(500, Str("Failed to check task existence")), FALSE)
    ELSE IF ~CheckTaskExists(tasks, id)
      THEN Outcome(tasks, seq, Error(404, Str("Task not found")), FALSE)
    ELSE IF f = 2
      THEN Outcome(tasks, seq, Error(500, Str("Failed to delete task")), FALSE)
    ELSE Outcome(DeleteTask(tasks, id), seq, Message(Str("Task deleted successfully")),
                 FALSE)

DeleteTaskReq ==
    /\ req = NoRequest
    /\ \E id \in Ids, f \in 0..2 :
      Finish(Request("DELETE /tasks/:id", id, NoBody, 0, 0, 0), DeleteTaskOutcome(id, f))

\* ------------------------------------------------------------------ DELETE /tasks
DeleteAllOutcome(f) ==
    IF f = 1
      THEN Outcome(tasks, seq, Error(500, Str("Failed to delete all tasks")), FALSE)
      ELSE Outcome(DeleteAllTasks(tasks), seq,
                   Message(Str("All tasks deleted successfully")), FALSE)

DeleteAllReq ==
    /\ req = NoRequest
    /\ \E f \in 0..1 :
      Finish(Request("DELETE /tasks", 0, NoBody, 0, 0, 0), DeleteAllOutcome(f))

\* ------------------------------------------------------------------ PATCH /tasks/reorder
\* The first loop, from pair i: database call i is pair i's CheckTaskExists.
RECURSIVE ReorderValidate(_, _, _, _)
ReorderValidate(pairs, i, T, f) ==
    IF i > Len(pairs) THEN Continue
    ELSE IF pairs[i].id = 0 \/ pairs[i].position <= 0
      THEN Error(400, Str("ID and position are required for all tasks"))
    ELSE IF f = i THEN Error(500, Str("Failed to check task existence"))
    ELSE IF ~CheckTaskExists(T, pairs[i].id)
      THEN Error(404, Sprintf("Task with ID %d not found", pairs[i].id))
    ELSE ReorderValidate(pairs, i + 1, T, f)

\* The second loop, from pair i, on the transaction's table W: database call
\* Len(pairs) + 1 + i is pair i's tx.Exec. failed is the id whose UPDATE failed.
RECURSIVE ReorderExecAll(_, _, _, _, _)
ReorderExecAll(pairs, i, W, t, f) ==
    IF i > Len(pairs) THEN [tasks |-> W, failed |-> 0]
    ELSE IF f = Len(pairs) + 1 + i THEN [tasks |-> W, failed |-> pairs[i].id]
    ELSE ReorderExecAll(pairs, i + 1,
                        ExecReorderUpdate(W, pairs[i].id, pairs[i].position, t), t, f)

\* Database call Len(pairs) + 1 is Begin, call 2 * Len(pairs) + 2 Commit.
\* `defer tx.Rollback()` undoes the transaction on every return but the commit's.
ReorderOutcome(body, f) ==
    IF body.kind # "array"
      THEN Outcome(tasks, seq, Error(400, Str("Invalid request body")), FALSE)
    ELSE LET pairs == body.items
             n == Len(pairs)
             v == ReorderValidate(pairs, 1, tasks, f)
             x == ReorderExecAll(pairs, 1, tasks, now + 1, f)
         IN  IF v.status # 0 THEN Outcome(tasks, seq, v, FALSE)
             ELSE IF f = n + 1
               THEN Outcome(tasks, seq, Error(500, Str("Failed to start transaction")),
                            FALSE)
             ELSE IF x.failed # 0
               THEN Outcome(Rollback(tasks, x.tasks), seq,
                            Error(500, Sprintf("Failed to update task with ID %d", x.failed)),
                            n > 0)
             ELSE IF f = 2 * n + 2
               THEN Outcome(Rollback(tasks, x.tasks), seq,
                            Error(500, Str("Failed to commit transaction")), n > 0)
             ELSE Outcome(Commit(tasks, x.tasks), seq,
                          Message(Str("Tasks reordered successfully")), n > 0)

Reorder ==
    /\ req = NoRequest
    /\ \E body \in ReorderBodies :
      \E f \in 0..(2 * Len(body.items) + 2) :
        Finish(Request("PATCH /tasks/reorder", 0, body, 0, 0, 0), ReorderOutcome(body, f))

\* ------------------------------------------------------------------ Spec
Next ==
    \/ GetTasks
    \/ PostTasks
    \/ Generate
    \/ PutTask
    \/ DeleteTaskReq
    \/ DeleteAllReq
    \/ Reorder
    \/ ServeNext

Spec == Init /\ [][Next]_vars

\* ------------------------------------------------------------------ SpecConc
\* Another connection's transaction has written and not yet ended: it holds the
\* database's write lock.
WriteLocked(p) == \E q \in Procs \ {p} : txn[q].open /\ txn[q].wrote

\* Handler p goes to its next database call.
GoTo(p, r, label, i) ==
    /\ pc' = [pc EXCEPT ![p] = At(label, i)]
    /\ creq' = [creq EXCEPT ![p] = r]
    /\ UNCHANGED cresp

\* Handler p answers.
Respond(p, r, answer) ==
    /\ pc' = [pc EXCEPT ![p] = At("done", 0)]
    /\ creq' = [creq EXCEPT ![p] = r]
    /\ cresp' = [cresp EXCEPT ![p] = answer]

\* POST /tasks with an object, up to and with CheckPositionExists
CPostCheck(p) ==
    /\ pc[p].at = "idle"
    /\ \E task \in Items :
        LET r == Request("POST /tasks", 0, Body("object", <<task>>), 0, 0, 0)
        IN  IF task.title = EmptyStr \/ task.position <= 0
              THEN Respond(p, r, Error(400, Str("Title and position are required")))
            ELSE IF CheckPositionExists(tasks, task.position)
              THEN Respond(p, r, Error(400, Sprintf("Position %d already exists",
                                                    task.position)))
            ELSE GoTo(p, r, "AddTask", 0)
    /\ UNCHANGED <<tasks, seq, now, req, resp, before, txn>>

\* POST /tasks with an object: AddTask and the response
CPostAdd(p) ==
    /\ pc[p].at = "AddTask"
    /\ LET task == creq[p].body.items[1]
           a == AddTask(tasks, seq, task.title, task.description, task.position, now + 1)
       IN  IF WriteLocked(p)
             THEN /\ Respond(p, creq[p], Error(500, Str("Failed to add task")))
                  /\ UNCHANGED <<tasks, seq, now>>
             ELSE /\ now < MaxClock
                  /\ tasks' = a.tasks
                  /\ seq' = a.seq
                  /\ now' = now + 1
                  /\ Respond(p, creq[p], Response(201, EmptyStr, <<a.task>>, 0, 0, 0))
    /\ UNCHANGED <<req, resp, before, txn>>

\* DELETE /tasks/:id, up to and with CheckTaskExists
CDeleteCheck(p) ==
    /\ pc[p].at = "idle"
    /\ \E id \in Ids :
        LET r == Request("DELETE /tasks/:id", id, NoBody, 0, 0, 0)
        IN  IF id <= 0 THEN Respond(p, r, Error(400, Str("Invalid task ID")))
            ELSE IF ~CheckTaskExists(tasks, id)
              THEN Respond(p, r, Error(404, Str("Task not found")))
            ELSE GoTo(p, r, "DeleteTask", 0)
    /\ UNCHANGED <<tasks, seq, now, req, resp, before, txn>>

\* DELETE /tasks/:id: DeleteTask and the response
CDeleteExec(p) ==
    /\ pc[p].at = "DeleteTask"
    /\ IF WriteLocked(p)
         THEN /\ Respond(p, creq[p], Error(500, Str("Failed to delete task")))
              /\ UNCHANGED tasks
         ELSE /\ tasks' = DeleteTask(tasks, creq[p].id)
              /\ Respond(p, creq[p], Message(Str("Task deleted successfully")))
    /\ UNCHANGED <<seq, now, req, resp, before, txn>>

\* PATCH /tasks/reorder: the first loop's turn for pair i of request r, up to
\* and with its CheckTaskExists
ReorderCheckPair(p, r, i) ==
    LET pairs == r.body.items
    IN  IF pairs[i].id = 0 \/ pairs[i].position <= 0
          THEN Respond(p, r, Error(400, Str("ID and position are required for all tasks")))
        ELSE IF ~CheckTaskExists(tasks, pairs[i].id)
          THEN Respond(p, r, Error(404, Sprintf("Task with ID %d not found", pairs[i].id)))
        ELSE IF i < Len(pairs) THEN GoTo(p, r, "CheckTaskExists", i + 1)
        ELSE GoTo(p, r, "Begin", 0)

\* PATCH /tasks/reorder: ShouldBindJSON and the first pair's turn
CReorderBind(p) ==
    /\ pc[p].at = "idle"
    /\ \E body \in ReorderBodies :
        LET r == Request("PATCH /tasks/reorder", 0, body, 0, 0, 0)
        IN  IF body.kind # "array"
              THEN Respond(p, r, Error(400, Str("Invalid request body")))
            ELSE IF Len(body.items) = 0 THEN GoTo(p, r, "Begin", 0)
            ELSE ReorderCheckPair(p, r, 1)
    /\ UNCHANGED <<tasks, seq, now, req, resp, before, txn>>

\* PATCH /tasks/reorder: the first loop's turn for pair pc[p].i
CReorderCheck(p) ==
    /\ pc[p].at = "CheckTaskExists"
    /\ ReorderCheckPair(p, creq[p], pc[p].i)
    /\ UNCHANGED <<tasks, seq, now, req, resp, before, txn>>

\* PATCH /tasks/reorder: utils.GetDB().Begin(), which takes no lock yet
CReorderBegin(p) ==
    /\ pc[p].at = "Begin"
    /\ txn' = [txn EXCEPT ![p] = Tx(TRUE, FALSE, {})]
    /\ IF Len(creq[p].body.items) = 0 THEN GoTo(p, creq[p], "Commit", 0)
                                      ELSE GoTo(p, creq[p], "Exec", 1)
    /\ UNCHANGED <<tasks, seq, now, req, resp, before>>

\* PATCH /tasks/reorder: tx.Exec for pair pc[p].i. The transaction's first
\* write takes the write lock, sees the table as it is then and reads the
\* clock; an UPDATE that matches no row is no error.
CReorderExec(p) ==
    /\ pc[p].at = "Exec"
    /\ LET pairs == creq[p].body.items
           i == pc[p].i
           W == IF txn[p].wrote THEN txn[p].tasks ELSE tasks
       IN  IF WriteLocked(p)
             THEN /\ Respond(p, creq[p],
                             Error(500, Sprintf("Failed to update task with ID %d",
                                                pairs[i].id)))
                  /\ txn' = [txn EXCEPT ![p] = NoTx]
                  /\ UNCHANGED now
             ELSE /\ txn[p].wrote \/ now < MaxClock
                  /\ now' = IF txn[p].wrote THEN now ELSE now + 1
                  /\ txn' = [txn EXCEPT ![p] =
                               Tx(TRUE, TRUE,
                                  ExecReorderUpdate(W, pairs[i].id, pairs[i].position,
                                                    now'))]
                  /\ IF i < Len(pairs) THEN GoTo(p, creq[p], "Exec", i + 1)
                                       ELSE GoTo(p, creq[p], "Commit", 0)
    /\ UNCHANGED <<tasks, seq, req, resp, before>>

\* PATCH /tasks/reorder: tx.Commit() and the response. The ended transaction
\* keeps the table as it committed it until the handler returns.
CReorderCommit(p) ==
    /\ pc[p].at = "Commit"
    /\ LET W == IF txn[p].wrote THEN txn[p].tasks ELSE tasks
       IN  /\ tasks' = Commit(tasks, W)
           /\ txn' = [txn EXCEPT ![p] = Tx(FALSE, FALSE, W)]
    /\ Respond(p, creq[p], Message(Str("Tasks reordered successfully")))
    /\ UNCHANGED <<seq, now, req, resp, before>>

\* Handler p has returned: p takes the next request.
CReturn(p) ==
    /\ pc[p].at = "done"
    /\ pc' = [pc EXCEPT ![p] = At("idle", 0)]
    /\ creq' = [creq EXCEPT ![p] = NoRequest]
    /\ cresp' = [cresp EXCEPT ![p] = Continue]
    /\ txn' = [txn EXCEPT ![p] = NoTx]
    /\ UNCHANGED <<tasks, seq, now, req, resp, before>>

NextConc ==
    \E p \in Procs :
        \/ CPostCheck(p)
        \/ CPostAdd(p)
        \/ CDeleteCheck(p)
        \/ CDeleteExec(p)
        \/ CReorderBind(p)
        \/ CReorderCheck(p)
        \/ CReorderBegin(p)
        \/ CReorderExec(p)
        \/ CReorderCommit(p)
        \/ CReturn(p)

SpecConc == Init /\ [][NextConc]_vars

\* ------------------------------------------------------------------ properties of SpecConc
\* C7: a reorder answered 200 had every pair carry a position > 0 and name a
\* task that was stored when its UPDATE ran (the transaction's table has it);
\* one answered 400 or 404 never began a transaction, so changed no task.
C7_ReorderedPairsWereStored ==
    \A p \in Procs :
        (pc[p].at = "done" /\ creq[p].op = "PATCH /tasks/reorder") =>
            LET pairs == creq[p].body.items
            IN  /\ cresp[p].status = 200 =>
                     \A i \in 1..Len(pairs) :
                        pairs[i].position > 0 /\ pairs[i].id \in IdsOf(txn[p].tasks)
                /\ cresp[p].status \in {400, 404} => txn[p] = NoTx

\* C10: of two POST /tasks for one position whose check and insert steps were
\* interleaved, at most one is answered 201 with its task stored: never are two
\* tasks stored, as their 201 responses returned them, at the same position.
C10_OnePostWinsThePosition ==
    \A p, q \in Procs :
        (/\ p # q
         /\ pc[p].at = "done" /\ pc[q].at = "done"
         /\ creq[p].op = "POST /tasks" /\ creq[q].op = "POST /tasks"
         /\ cresp[p].status = 201 /\ cresp[q].status = 201
         /\ cresp[p].tasks[1].position = cresp[q].tasks[1].position)
        => ~(cresp[p].tasks[1] \in tasks /\ cresp[q].tasks[1] \in tasks)

\* ------------------------------------------------------------------ properties of Spec
\* Every 500 of the handlers answers a database call that failed.
StorageFailed == resp.status = 500

\* C1: no two stored tasks have the same position.
C1_NoTwoTasksSharePosition ==
    \A a, b \in tasks : a # b => a.position # b.position

\* C2: a reorder whose UPDATE or commit failed (500) leaves every row as the
\* request found it; a reorder answered 200 has applied every pair: each id of
\* the batch has the position of its last pair and a refreshed updated_at.
C2_ReorderAllOrNothing ==
    req.op = "PATCH /tasks/reorder" =>
        LET pairs == req.body.items
        IN  /\ resp.status = 500 => tasks = before
            /\ resp.status = 200 =>
                 \A i \in 1..Len(pairs) :
                    \E r \in tasks :
                       /\ r.id = pairs[i].id
                       /\ r.updated_at = now
                       /\ (\A j \in 1..Len(pairs) : j > i => pairs[j].id # pairs[i].id)
                            => r.position = pairs[i].position

\* C2's case: the second UPDATE of a batch fails after the first one changed a
\* row's position, and the table is as before.
C2_Witness ==
    /\ req.op = "PATCH /tasks/reorder"
    /\ Len(req.body.items) = 2
    /\ req.body.items[1].id # req.body.items[2].id
    /\ resp.msg = Sprintf("Failed to update task with ID %d", req.body.items[2].id)
    /\ \E r \in before :
          r.id = req.body.items[1].id /\ r.position # req.body.items[1].position
    /\ tasks = before

\* Some item of a POST body carries a position a stored task held.
PostConflicts ==
    /\ req.op = "POST /tasks"
    /\ req.body.kind \in {"object", "array"}
    /\ \E i \in 1..Len(req.body.items) : req.body.items[i].position \in PositionsOf(before)

\* C3: a POST /tasks with an item at a position already stored stores no task,
\* and is answered 400 (unless a database call failed).
C3_ConflictStoresNothing ==
    PostConflicts => tasks = before /\ (~StorageFailed => resp.status = 400)

\* C3's case: the second item of an array conflicts, the first one is valid and
\* free, and nothing was stored.
C3_Witness ==
    /\ PostConflicts
    /\ req.body.kind = "array" /\ Len(req.body.items) = 2
    /\ req.body.items[1].title # EmptyStr
    /\ req.body.items[1].position > 0
    /\ req.body.items[1].position \notin PositionsOf(before)
    /\ resp = Error(400, Sprintf("Position %d already exists", req.body.items[2].position))
    /\ tasks = before

\* C4: a successful generate(N) adds exactly N tasks, ids and positions strictly
\* increasing in insertion order, every new id above every id stored before and
\* every new position above every position stored before.
C4_GenerateContinuesFromMaximum ==
    (req.op = "POST /tasks/generate" /\ resp.status = 200) =>
        LET new == tasks \ before
        IN  /\ before \subseteq tasks
            /\ Cardinality(new) = req.count
            /\ \A a, b \in new : a.id < b.id => a.position < b.position
            /\ \A n \in new : \A b \in before : n.id > b.id /\ n.position > b.position

\* C5: a list's tasks are in strictly ascending position, and its total is the
\* number of stored tasks.
C5_ListStrictlyAscending ==
    (req.op = "GET /tasks" /\ resp.status = 200) =>
        /\ \A i \in 1..Len(resp.tasks) :
              i < Len(resp.tasks) => resp.tasks[i].position < resp.tasks[i + 1].position
        /\ resp.total = Cardinality(tasks)

\* C6: DELETE /tasks/:id of an id not stored is answered 404 and changes
\* nothing; of a stored id it is answered 200, removes the task of that id and
\* leaves every other task as it was (unless a database call failed).
C6_DeleteRemovesExactlyOne ==
    (req.op = "DELETE /tasks/:id" /\ req.id > 0) =>
        /\ req.id \notin IdsOf(before) =>
              tasks = before /\ (~StorageFailed => resp.status = 404)
        /\ (req.id \in IdsOf(before) /\ ~StorageFailed) =>
              /\ resp.status = 200
              /\ tasks = {r \in before : r.id # req.id}
              /\ Cardinality(tasks) = Cardinality(before) - 1

\* C6's case: a stored task is deleted while another one stays.
C6_Witness ==
    /\ req.op = "DELETE /tasks/:id"
    /\ req.id \in IdsOf(before)
    /\ resp.status = 200
    /\ \E r \in before : r.id # req.id /\ r.position = req.id

\* C8: every stored task has a title and a position > 0.
C8_TitleAndPositionValid ==
    \A r \in tasks : r.title # EmptyStr /\ r.position > 0

\* C9: a failed generate leaves only the rows of its completed batches: the
\* rows of the batch in progress are rolled back.
C9_FailedGenerateRollsBackBatch ==
    (req.op = "POST /tasks/generate" /\ resp.status = 500) =>
        /\ before \subseteq tasks
        /\ Cardinality(tasks \ before) % BatchSize = 0
====
